---- MODULE Spec2Model ----
(***************************************************************************)
(* Model of the proto annotation extractor (src/src/parser.ts).            *)
(*                                                                         *)
(* Texts are sequences of one-character strings.  JavaScript indices are   *)
(* kept 0-based as in the source: the character at JS index i of s is      *)
(* s[i + 1].  An optional value (T | null, T | undefined) is a sequence of *)
(* length 0 (absent) or 1 (present).                                       *)
(***************************************************************************)
EXTENDS Integers, Sequences, FiniteSets, TLC

VARIABLES pc, input, output

vars == <<pc, input, output>>

(***************************************************************************)
(* Bounds of the explored inputs.                                          *)
(***************************************************************************)
MaxScanLen == 5
MaxPairs == 3
MaxDecls == 4
MaxFiles == 3

(***************************************************************************)
(* Characters and the regular-expression character classes.                *)
(***************************************************************************)
LowerCase ==
  <<"a","b","c","d","e","f","g","h","i","j","k","l","m",
    "n","o","p","q","r","s","t","u","v","w","x","y","z">>

UpperCase ==
  <<"A","B","C","D","E","F","G","H","I","J","K","L","M",
    "N","O","P","Q","R","S","T","U","V","W","X","Y","Z">>

Digits == {"0","1","2","3","4","5","6","7","8","9"}

Range(f) == {f[k] : k \in DOMAIN f}

Min(S) == CHOOSE x \in S : \A y \in S : x <= y

\* \w of the regular expressions
IsWord(c) == c \in Range(LowerCase) \cup Range(UpperCase) \cup Digits \cup {"_"}

\* [\w.] of the regular expressions
IsWordOrDot(c) == IsWord(c) \/ c = "."

\* \s of the regular expressions
IsSpace(c) == c \in {" ", "\n", "\t", "\r"}

\* ["'] of the regular expressions
IsQuote(c) == c \in {"\"", "'"}

\* String.prototype.toLowerCase on one character
toLowerCase(c) ==
  IF c \in Range(UpperCase)
    THEN LowerCase[CHOOSE k \in DOMAIN UpperCase : UpperCase[k] = c]
    ELSE c

\* content[i] for a JS index i within the text
At(s, i) == s[i + 1]

\* String.prototype.slice(a, b)
Slice(s, a, b) ==
  LET n  == Len(s)
      lo == IF a < 0 THEN (IF n + a < 0 THEN 0 ELSE n + a) ELSE (IF a > n THEN n ELSE a)
      hi == IF b < 0 THEN (IF n + b < 0 THEN 0 ELSE n + b) ELSE (IF b > n THEN n ELSE b)
  IN  IF hi <= lo THEN <<>> ELSE SubSeq(s, lo + 1, hi)

(***************************************************************************)
(* extractBracedContent: the brace scanner.                                *)
(***************************************************************************)
RECURSIVE ScanLoopFlat(_, _, _)
\* ScanLoop without the depth++ branch
ScanLoopFlat(content, i, depth) ==
  IF i < Len(content) /\ depth > 0
    THEN ScanLoopFlat(content, i + 1, IF At(content, i) = "}" THEN depth - 1 ELSE depth)
    ELSE i

RECURSIVE ScanLoop(_, _, _)
\* the while loop: the value of i when the loop exits
ScanLoop(content, i, depth) ==
  IF i < Len(content) /\ depth > 0
    THEN ScanLoop(content, i + 1,
                  IF At(content, i) = "{" THEN depth + 1
                  ELSE IF At(content, i) = "}" THEN depth - 1
                  ELSE depth)
    ELSE i

extractBracedContent(content, startIndex) ==
  Slice(content, startIndex, ScanLoop(content, startIndex, 1) - 1)

(***************************************************************************)
(* Inputs of the brace scanner: every text over a small alphabet, and      *)
(* every index just after an opening brace (the callers pass match.index + *)
(* match[0].length of a match that ends with "{").                         *)
(***************************************************************************)
ScanAlphabet == {"{", "}", "a"}

ScanTexts == UNION {[1..n -> ScanAlphabet] : n \in 0..MaxScanLen}

ScanInputs ==
  {[fn |-> "extractBracedContent", content |-> c, startIndex |-> k] :
     <<c, k>> \in {ck \in ScanTexts \X (1..MaxScanLen) :
                     ck[2] <= Len(ck[1]) /\ At(ck[1], ck[2] - 1) = "{"}}

InitScan == pc = "call" /\ input \in ScanInputs /\ output = <<>>

ExtractBracedContent ==
  /\ pc = "call"
  /\ input.fn = "extractBracedContent"
  /\ output' = extractBracedContent(input.content, input.startIndex)
  /\ pc' = "return"
  /\ UNCHANGED input

NextScan == ExtractBracedContent

SpecScan == InitScan /\ [][NextScan]_vars

(***************************************************************************)
(* Properties of the brace scanner.                                        *)
(***************************************************************************)
\* number of occurrences of the character ch at the JS indices a..b of c
Count(c, ch, a, b) == Cardinality({k \in a..b : At(c, k) = ch})

\* the JS indices at which the brace opened just before startIndex is balanced
Balancers(c, startIndex) ==
  {j \in startIndex..(Len(c) - 1) :
     At(c, j) = "}" /\ Count(c, "}", startIndex, j) = Count(c, "{", startIndex, j) + 1}

Scanned == pc = "return" /\ input.fn = "extractBracedContent"

\* C3: when the brace opened just before startIndex has a balancing closing
\* brace, the scanner returns exactly the text between the two, nested
\* brace pairs included, and not the text up to the first inner "}".
C3_NestedBraceTolerance ==
  (Scanned /\ Balancers(input.content, input.startIndex) # {}) =>
     output = Slice(input.content, input.startIndex,
                    Min(Balancers(input.content, input.startIndex)))

\* C3 witness: a returned region that holds a nested brace pair
C3_Witness ==
  /\ Scanned
  /\ Balancers(input.content, input.startIndex) # {}
  /\ \E k \in 1..Len(output) : output[k] = "{"
  /\ \E k \in 1..Len(output) : output[k] = "}"

\* C9: when the depth never returns to 0 the recovered region is the whole
\* text from startIndex to the end of the text.
C9_UnbalancedToEndOfText ==
  (Scanned /\ Balancers(input.content, input.startIndex) = {}) =>
     output = Slice(input.content, input.startIndex, Len(input.content))

(***************************************************************************)
(* Regular-expression pieces shared by the matchers.  Every quantified     *)
(* class of the source's expressions is followed by a character outside    *)
(* the class, so the greedy run is the only way to match.                  *)
(***************************************************************************)
\* the literal lit occurs in s at JS index p (ci: under the "i" flag)
LitAt(s, p, lit, ci) ==
  /\ p + Len(lit) <= Len(s)
  /\ \A k \in 1..Len(lit) :
       IF ci THEN toLowerCase(s[p + k]) = toLowerCase(lit[k]) ELSE s[p + k] = lit[k]

RECURSIVE SkipSpaces(_, _)
\* \s* from p: the index after the run
SkipSpaces(s, p) == IF p < Len(s) /\ IsSpace(At(s, p)) THEN SkipSpaces(s, p + 1) ELSE p

RECURSIVE SkipWord(_, _)
\* \w* from p: the index after the run
SkipWord(s, p) == IF p < Len(s) /\ IsWord(At(s, p)) THEN SkipWord(s, p + 1) ELSE p

RECURSIVE SkipWordOrDot(_, _)
\* [\w.]* from p: the index after the run
SkipWordOrDot(s, p) ==
  IF p < Len(s) /\ IsWordOrDot(At(s, p)) THEN SkipWordOrDot(s, p + 1) ELSE p

RECURSIVE SkipNonQuote(_, _)
\* [^"']* from p: the index after the run
SkipNonQuote(s, p) ==
  IF p < Len(s) /\ ~IsQuote(At(s, p)) THEN SkipNonQuote(s, p + 1) ELSE p

\* String.prototype.includes
Includes(s, lit) == \E p \in 0..Len(s) : LitAt(s, p, lit, FALSE)

(***************************************************************************)
(* parseHttpAnnotation                                                     *)
(***************************************************************************)
GET == <<"G","E","T">>
POST == <<"P","O","S","T">>
PUT == <<"P","U","T">>
PATCH == <<"P","A","T","C","H">>
DELETE == <<"D","E","L","E","T","E">>

httpMethods == <<GET, POST, PUT, PATCH, DELETE>>

methodLower(method) == [k \in 1..Len(method) |-> toLowerCase(method[k])]

HttpMarker == <<"g","o","o","g","l","e",".","a","p","i",".","h","t","t","p">>

BodyKey == <<"b","o","d","y">>

\* key\s*:\s*["']([^"']+)["'] tried at JS index p: <<capture>>, or <<>> for no match
PairMatchAt(s, p, key, ci) ==
  IF ~LitAt(s, p, key, ci) THEN <<>>
  ELSE LET colon == SkipSpaces(s, p + Len(key)) IN
    IF ~(colon < Len(s) /\ At(s, colon) = ":") THEN <<>>
    ELSE LET open == SkipSpaces(s, colon + 1) IN
      IF ~(open < Len(s) /\ IsQuote(At(s, open))) THEN <<>>
      ELSE LET close == SkipNonQuote(s, open + 1) IN
        IF close > open + 1 /\ close < Len(s)
          THEN << Slice(s, open + 1, close) >>
          ELSE <<>>

\* optionsBlock.match(regex) without the g flag: the leftmost match
PairMatch(s, key, ci) ==
  LET starts == {p \in 0..(Len(s) - 1) : PairMatchAt(s, p, key, ci) # <<>>}
  IN  IF starts = {} THEN <<>> ELSE PairMatchAt(s, Min(starts), key, ci)

RECURSIVE VerbLoop(_, _)
\* the for loop over httpMethods, from its k-th element
VerbLoop(optionsBlock, k) ==
  IF k > Len(httpMethods) THEN <<>>
  ELSE LET pathMatch == PairMatch(optionsBlock, methodLower(httpMethods[k]), TRUE) IN
    IF pathMatch # <<>>
      THEN << [method |-> httpMethods[k],
               path   |-> pathMatch[1],
               body   |-> PairMatch(optionsBlock, BodyKey, FALSE)] >>
      ELSE VerbLoop(optionsBlock, k + 1)

\* parseHttpAnnotation without the check for the marker
parseHttpAnnotationUnmarked(optionsBlock) == VerbLoop(optionsBlock, 1)

parseHttpAnnotation(optionsBlock) ==
  IF ~Includes(optionsBlock, HttpMarker) THEN <<>> ELSE VerbLoop(optionsBlock, 1)

(***************************************************************************)
(* extractPackageName: /^\s*package\s+([\w.]+)\s*;/m, first match.         *)
(***************************************************************************)
PackageKeyword == <<"p","a","c","k","a","g","e">>

\* ^ under the m flag: the start of the text or just after a line terminator
IsLineStart(s, p) == p = 0 \/ At(s, p - 1) \in {"\n", "\r"}

\* the expression tried at JS index p: <<capture>>, or <<>> for no match
PackageMatchAt(s, p) ==
  IF ~IsLineStart(s, p) THEN <<>>
  ELSE LET kw == SkipSpaces(s, p) IN
    IF ~LitAt(s, kw, PackageKeyword, FALSE) THEN <<>>
    ELSE LET name == SkipSpaces(s, kw + Len(PackageKeyword)) IN
      IF name = kw + Len(PackageKeyword) THEN <<>>
      ELSE LET nameEnd == SkipWordOrDot(s, name) IN
        IF nameEnd = name THEN <<>>
        ELSE LET semi == SkipSpaces(s, nameEnd) IN
          IF semi < Len(s) /\ At(s, semi) = ";"
            THEN << Slice(s, name, nameEnd) >>
            ELSE <<>>

\* extractPackageName taking the last match
extractPackageNameLast(content) ==
  LET starts == {p \in 0..Len(content) : PackageMatchAt(content, p) # <<>>}
  IN  IF starts = {} THEN <<>>
      ELSE PackageMatchAt(content, CHOOSE p \in starts : \A q \in starts : q <= p)[1]

extractPackageName(content) ==
  LET starts == {p \in 0..Len(content) : PackageMatchAt(content, p) # <<>>}
  IN  IF starts = {} THEN <<>> ELSE PackageMatchAt(content, Min(starts))[1]

(***************************************************************************)
(* extractServices: /service\s+(\w+)\s*\{/g in an exec loop.                *)
(***************************************************************************)
ServiceKeyword == <<"s","e","r","v","i","c","e">>

\* serviceRegex tried at JS index p: <<[name, end]>> with end = match.index +
\* match[0].length, or <<>> for no match
ServiceMatchAt(s, p) ==
  IF ~LitAt(s, p, ServiceKeyword, FALSE) THEN <<>>
  ELSE LET name == SkipSpaces(s, p + Len(ServiceKeyword)) IN
    IF name = p + Len(ServiceKeyword) THEN <<>>
    ELSE LET nameEnd == SkipWord(s, name) IN
      IF nameEnd = name THEN <<>>
      ELSE LET brace == SkipSpaces(s, nameEnd) IN
        IF brace < Len(s) /\ At(s, brace) = "{"
          THEN << [name |-> Slice(s, name, nameEnd), end |-> brace + 1] >>
          ELSE <<>>

RECURSIVE ServicesLoop(_, _)
\* the while loop, with serviceRegex.lastIndex = lastIndex
ServicesLoop(content, lastIndex) ==
  LET starts == {p \in lastIndex..(Len(content) - 1) : ServiceMatchAt(content, p) # <<>>}
  IN  IF starts = {} THEN <<>>
      ELSE LET match == ServiceMatchAt(content, Min(starts))[1]
               body  == extractBracedContent(content, match.end)
           IN  (IF body # <<>> THEN << [name |-> match.name, body |-> body] >> ELSE <<>>)
                 \o ServicesLoop(content, match.end)

\* extractServices taking the whole text for a service body when no service
\* declaration is found
extractServicesOrWhole(content) ==
  IF ServicesLoop(content, 0) = <<>> /\ content # <<>>
    THEN << [name |-> <<>>, body |-> content] >>
    ELSE ServicesLoop(content, 0)

extractServices(content) == ServicesLoop(content, 0)

(***************************************************************************)
(* extractMethods:                                                         *)
(* /rpc\s+(\w+)\s*\(\s*(\w+)\s*\)\s*returns\s*\(\s*([\w.]+)\s*\)\s*\{/g      *)
(* in an exec loop.                                                        *)
(***************************************************************************)
RpcKeyword == <<"r","p","c">>

ReturnsKeyword == <<"r","e","t","u","r","n","s">>

\* \s* and then the one character ch: the index after ch, or -1
SpacesThen(s, p, ch) ==
  LET q == SkipSpaces(s, p) IN IF q < Len(s) /\ At(s, q) = ch THEN q + 1 ELSE -1

\* rpcStartRegex tried at JS index p: <<[name, inputType, outputType, end]>>,
\* or <<>> for no match
RpcMatchAt(s, p) ==
  IF ~LitAt(s, p, RpcKeyword, FALSE) THEN <<>>
  ELSE LET name == SkipSpaces(s, p + Len(RpcKeyword))
           nameEnd == SkipWord(s, name)
           open1 == SpacesThen(s, nameEnd, "(")
       IN
    IF name = p + Len(RpcKeyword) \/ nameEnd = name \/ open1 = -1 THEN <<>>
    ELSE LET in == SkipSpaces(s, open1)
             inEnd == SkipWord(s, in)
             close1 == SpacesThen(s, inEnd, ")")
         IN
      IF inEnd = in \/ close1 = -1 THEN <<>>
      ELSE LET ret == SkipSpaces(s, close1) IN
        IF ~LitAt(s, ret, ReturnsKeyword, FALSE) THEN <<>>
        ELSE LET open2 == SpacesThen(s, ret + Len(ReturnsKeyword), "(") IN
          IF open2 = -1 THEN <<>>
          ELSE LET out == SkipSpaces(s, open2)
                   outEnd == SkipWordOrDot(s, out)
                   close2 == SpacesThen(s, outEnd, ")")
               IN
            IF outEnd = out \/ close2 = -1 THEN <<>>
            ELSE LET brace == SpacesThen(s, close2, "{") IN
              IF brace = -1 THEN <<>>
              ELSE << [name       |-> Slice(s, name, nameEnd),
                       inputType  |-> Slice(s, in, inEnd),
                       outputType |-> Slice(s, out, outEnd),
                       end        |-> brace] >>

RECURSIVE MethodsLoopPrepend(_, _)
\* MethodsLoop with unshift in place of push
MethodsLoopPrepend(serviceBody, lastIndex) ==
  LET starts == {p \in lastIndex..(Len(serviceBody) - 1) : RpcMatchAt(serviceBody, p) # <<>>}
  IN  IF starts = {} THEN <<>>
      ELSE LET match == RpcMatchAt(serviceBody, Min(starts))[1]
               optionsBlock == extractBracedContent(serviceBody, match.end)
               httpAnnotation == parseHttpAnnotation(optionsBlock)
           IN  MethodsLoopPrepend(serviceBody, match.end)
                 \o (IF httpAnnotation # <<>>
                       THEN << [name       |-> match.name,
                                inputType  |-> match.inputType,
                                outputType |-> match.outputType,
                                httpMethod |-> httpAnnotation[1].method,
                                httpPath   |-> httpAnnotation[1].path,
                                body       |-> httpAnnotation[1].body] >>
                       ELSE <<>>)

RECURSIVE MethodsLoop(_, _)
\* the while loop, with rpcStartRegex.lastIndex = lastIndex
MethodsLoop(serviceBody, lastIndex) ==
  LET starts == {p \in lastIndex..(Len(serviceBody) - 1) : RpcMatchAt(serviceBody, p) # <<>>}
  IN  IF starts = {} THEN <<>>
      ELSE LET match == RpcMatchAt(serviceBody, Min(starts))[1]
               optionsBlock == extractBracedContent(serviceBody, match.end)
               httpAnnotation == parseHttpAnnotation(optionsBlock)
           IN  (IF httpAnnotation # <<>>
                  THEN << [name       |-> match.name,
                           inputType  |-> match.inputType,
                           outputType |-> match.outputType,
                           httpMethod |-> httpAnnotation[1].method,
                           httpPath   |-> httpAnnotation[1].path,
                           body       |-> httpAnnotation[1].body] >>
                  ELSE <<>>)
                 \o MethodsLoop(serviceBody, match.end)

extractMethods(serviceBody) == MethodsLoop(serviceBody, 0)

(***************************************************************************)
(* parseProtoFile and parseProtoFiles                                      *)
(***************************************************************************)
RECURSIVE FileLoop(_, _, _)
\* the for loop over serviceMatches from its k-th element
FileLoop(serviceMatches, k, packageName) ==
  IF k > Len(serviceMatches) THEN <<>>
  ELSE LET serviceName == serviceMatches[k].name
           methods == extractMethods(serviceMatches[k].body)
       IN  (IF Len(methods) > 0
              THEN << [packageName |-> packageName,
                       serviceName |-> serviceName,
                       fullName    |-> IF packageName # <<>>
                                         THEN packageName \o <<".">> \o serviceName
                                         ELSE serviceName,
                       methods     |-> methods] >>
              ELSE <<>>)
             \o FileLoop(serviceMatches, k + 1, packageName)

parseProtoFile(content) ==
  FileLoop(extractServices(content), 1, extractPackageName(content))

RECURSIVE FilesLoopMerged(_, _, _)
\* FilesLoop leaving out a service whose fullName is already in allServices
FilesLoopMerged(files, k, allServices) ==
  IF k > Len(files) THEN allServices
  ELSE FilesLoopMerged(files, k + 1,
         allServices \o SelectSeq(parseProtoFile(files[k]),
                                  LAMBDA sv : \A i \in 1..Len(allServices) :
                                                allServices[i].fullName # sv.fullName))

RECURSIVE FilesLoop(_, _, _)
\* the for loop over files from its k-th element, allServices so far
FilesLoop(files, k, allServices) ==
  IF k > Len(files) THEN allServices
  ELSE FilesLoop(files, k + 1, allServices \o parseProtoFile(files[k]))

parseProtoFiles(files) == FilesLoop(files, 1, <<>>)

(***************************************************************************)
(* Inputs of parseHttpAnnotation: an options block written as the tests    *)
(* write it, option (...) = { pairs }, with up to MaxPairs key/value pairs *)
(* drawn from a pool.  A pair is written key, gap, colon, gap, quote,      *)
(* value, quote.                                                           *)
(***************************************************************************)
AnnoPool ==
  << [key |-> <<"g","e","t">>,             gap |-> <<>>,    q |-> "\"", val |-> <<"/","a">>],
     [key |-> <<"p","o","s","t">>,         gap |-> <<" ">>, q |-> "'",  val |-> <<"/","b">>],
     [key |-> <<"P","u","t">>,             gap |-> <<>>,    q |-> "\"", val |-> <<"/","c">>],
     [key |-> <<"d","e","l","e","t","e">>, gap |-> <<>>,    q |-> "\"", val |-> <<"/","d">>],
     [key |-> <<"p","a","t","c","h">>,     gap |-> <<>>,    q |-> "\"", val |-> <<>>],
     [key |-> <<"b","o","d","y">>,         gap |-> <<>>,    q |-> "\"", val |-> <<"*">>],
     [key |-> <<"t","a","r","g","e","t">>, gap |-> <<>>,    q |-> "\"", val |-> <<"/","t">>],
     [key |-> <<"r","e","s","p","o","n","s","e","_","b","o","d","y">>,
                                           gap |-> <<>>,    q |-> "\"", val |-> <<"r">>] >>

PairText(pair) ==
  pair.key \o pair.gap \o <<":">> \o pair.gap \o <<pair.q>> \o pair.val \o <<pair.q>>

RECURSIVE PairsText(_)
PairsText(pairs) ==
  IF pairs = <<>> THEN <<>>
  ELSE <<" ">> \o PairText(AnnoPool[Head(pairs)]) \o PairsText(Tail(pairs))

MarkedOption == <<"o","p","t","i","o","n"," ","(">> \o HttpMarker \o <<")"," ","="," ","{">>

PlainOption == <<"o","p","t","i","o","n"," ","(","x",")"," ","="," ","{">>

OptionText(marked, pairs) ==
  (IF marked THEN MarkedOption ELSE PlainOption) \o PairsText(pairs) \o <<" ","}",";">>

AnnoInputs ==
  {[fn |-> "parseHttpAnnotation", marked |-> m, pairs |-> ps,
    optionsBlock |-> OptionText(m, ps)] :
     <<m, ps>> \in BOOLEAN \X UNION {[1..n -> DOMAIN AnnoPool] : n \in 0..MaxPairs}}

InitAnnotation == pc = "call" /\ input \in AnnoInputs /\ output = <<>>

ParseHttpAnnotation ==
  /\ pc = "call"
  /\ input.fn = "parseHttpAnnotation"
  /\ output' = parseHttpAnnotation(input.optionsBlock)
  /\ pc' = "return"
  /\ UNCHANGED input

NextAnnotation == ParseHttpAnnotation

SpecAnnotation == InitAnnotation /\ [][NextAnnotation]_vars

(***************************************************************************)
(* Inputs of parseProtoFile: a text written from up to MaxDecls            *)
(* declarations in the layout of the tests.  The k-th declaration is one   *)
(* of                                                                       *)
(*   "S"  service <UpperCase[k]> {       (closing the service before it)   *)
(*   "G"  rpc with option (google.api.http) = { get:"/a" }                 *)
(*   "P"  rpc with option (google.api.http) = { post : '/b' body:"*" }     *)
(*   "N"  rpc with option (x) = { get:"/a" }: a pair but no marker         *)
(*   "X"  rpc <name>(R) returns (p.S);  with no option block               *)
(* and an rpc is named LowerCase[k].  The layout adds a package            *)
(* declaration in several places, or cuts the end of the text off.         *)
(***************************************************************************)
DeclKinds == {"S", "G", "P", "N", "X"}

Layouts == {"plain", "package", "twoPackages", "packageInline", "packageLast",
            "partialService", "cutOne", "cutTail"}

\* the number of characters "cutTail" removes from the end of the text
CutLen == 6

PackageName == <<"p",".","v">>

PackageDecl(name) == PackageKeyword \o <<" ">> \o name \o <<";","\n">>

RpcHead(k) ==
  <<" "," ">> \o RpcKeyword \o <<" ", LowerCase[k], "(","R",")"," ">> \o ReturnsKeyword
    \o <<" ","(","p",".","S",")">>

DeclText(kind, k, inService) ==
  CASE kind = "S" -> (IF inService THEN <<"}","\n">> ELSE <<>>)
                       \o ServiceKeyword \o <<" ", UpperCase[k], " ", "{", "\n">>
    [] kind = "G" -> RpcHead(k) \o <<" ","{"," ">> \o OptionText(TRUE, <<1>>) \o <<" ","}","\n">>
    [] kind = "P" -> RpcHead(k) \o <<" ","{"," ">> \o OptionText(TRUE, <<2, 6>>) \o <<" ","}","\n">>
    [] kind = "N" -> RpcHead(k) \o <<" ","{"," ">> \o OptionText(FALSE, <<1>>) \o <<" ","}","\n">>
    [] kind = "X" -> RpcHead(k) \o <<";","\n">>

RECURSIVE DeclsText(_, _, _)
\* the declarations from the k-th on, then the closing brace of the last service
DeclsText(decls, k, inService) ==
  IF k > Len(decls) THEN (IF inService THEN <<"}">> ELSE <<>>)
  ELSE DeclText(decls[k], k, inService)
         \o DeclsText(decls, k + 1, inService \/ decls[k] = "S")

FileText(layout, decls) ==
  LET body == DeclsText(decls, 1, FALSE) IN
  CASE layout = "plain"          -> body
    [] layout = "package"        -> PackageDecl(PackageName) \o body
    [] layout = "twoPackages"    -> PackageDecl(PackageName) \o PackageDecl(<<"q">>) \o body
    [] layout = "packageInline"  -> <<"s","y","n","t","a","x",";"," ">>
                                      \o PackageDecl(PackageName) \o body
    [] layout = "packageLast"    -> body \o <<"\n"," ">> \o PackageDecl(PackageName)
    [] layout = "partialService" -> body \o <<"\n">> \o ServiceKeyword \o <<" ","Z","\n">>
    [] layout = "cutOne"         -> Slice(body, 0, Len(body) - 1)
    [] layout = "cutTail"        -> IF Len(body) > CutLen
                                      THEN Slice(body, 0, Len(body) - CutLen) ELSE <<>>

FileInputs ==
  {[fn |-> "parseProtoFile", layout |-> l, decls |-> d, content |-> FileText(l, d)] :
     <<l, d>> \in Layouts \X UNION {[1..n -> DeclKinds] : n \in 0..MaxDecls}}

Init == pc = "call" /\ input \in FileInputs /\ output = <<>>

ParseProtoFile ==
  /\ pc = "call"
  /\ input.fn = "parseProtoFile"
  /\ output' = parseProtoFile(input.content)
  /\ pc' = "return"
  /\ UNCHANGED input

Next == ParseProtoFile

Spec == Init /\ [][Next]_vars

(***************************************************************************)
(* Inputs of parseProtoFiles: up to MaxFiles texts from a pool that holds  *)
(* the same service under the same package twice over (a text may be       *)
(* chosen again), the same service name without a package, a text with no  *)
(* bound method, the empty text and a text with two services.              *)
(***************************************************************************)
FilePool ==
  << FileText("package", <<"S", "G">>),
     FileText("plain", <<"S", "P">>),
     FileText("package", <<"S", "N">>),
     <<>>,
     FileText("package", <<"S", "G", "S", "P">>) >>

FilesInputs ==
  {[fn |-> "parseProtoFiles", picks |-> ps, files |-> [k \in DOMAIN ps |-> FilePool[ps[k]]]] :
     ps \in UNION {[1..n -> DOMAIN FilePool] : n \in 0..MaxFiles}}

InitFiles == pc = "call" /\ input \in FilesInputs /\ output = <<>>

ParseProtoFiles ==
  /\ pc = "call"
  /\ input.fn = "parseProtoFiles"
  /\ output' = parseProtoFiles(input.files)
  /\ pc' = "return"
  /\ UNCHANGED input

NextFiles == ParseProtoFiles

SpecFiles == InitFiles /\ [][NextFiles]_vars

(***************************************************************************)
(* Properties of parseHttpAnnotation, stated on the pairs the options      *)
(* block was written from.                                                 *)
(***************************************************************************)
Annotated == pc = "return" /\ input.fn = "parseHttpAnnotation"

LowerKey(pair) == [k \in 1..Len(pair.key) |-> toLowerCase(pair.key[k])]

\* the positions of the pairs whose key is the keyword of httpMethods[v]
\* (in any letter case) and whose path is not empty
VerbPairs(pairs, v) ==
  {j \in 1..Len(pairs) :
     /\ LowerKey(AnnoPool[pairs[j]]) = methodLower(httpMethods[v])
     /\ AnnoPool[pairs[j]].val # <<>>}

\* the verbs (indices of httpMethods) that have a pair
VerbsPresent(pairs) == {v \in 1..Len(httpMethods) : VerbPairs(pairs, v) # {}}

\* the positions of the pairs whose key is body and whose value is not empty
BodyPairs(pairs) ==
  {j \in 1..Len(pairs) :
     AnnoPool[pairs[j]].key = BodyKey /\ AnnoPool[pairs[j]].val # <<>>}

\* C2: a marked options block with pairs for more than one verb yields the
\* earliest of those verbs in the order GET, POST, PUT, PATCH, DELETE, with
\* the path of that verb's pair, whatever the textual order of the pairs.
C2_VerbPrecedence ==
  (Annotated /\ input.marked /\ Cardinality(VerbsPresent(input.pairs)) > 1) =>
     LET v == Min(VerbsPresent(input.pairs)) IN
       /\ output # <<>>
       /\ output[1].method = httpMethods[v]
       /\ output[1].path = AnnoPool[input.pairs[Min(VerbPairs(input.pairs, v))]].val

\* C5: a recovered binding has a body selector exactly when the block has a
\* body pair, and the selector is then that pair's value, whichever verb
\* matched.
C5_BodySelector ==
  (Annotated /\ output # <<>>) =>
     IF BodyPairs(input.pairs) = {}
       THEN output[1].body = <<>>
       ELSE output[1].body = << AnnoPool[input.pairs[Min(BodyPairs(input.pairs))]].val >>

\* C10: a binding with verb V is recovered only from a block that has a pair
\* whose key is V's keyword itself, with a non-empty quoted path; a longer
\* key that merely ends with the keyword's letters selects no verb.
C10_VerbKeyIsWholeKey ==
  (Annotated /\ output # <<>>) =>
     \E v \in VerbsPresent(input.pairs) : output[1].method = httpMethods[v]

(***************************************************************************)
(* Properties of parseProtoFile, stated on the declarations the text was   *)
(* written from.                                                           *)
(***************************************************************************)
Parsed == pc = "return" /\ input.fn = "parseProtoFile"

RECURSIVE Ascending(_)
\* the elements of a finite set of numbers in ascending order
Ascending(S) == IF S = {} THEN <<>> ELSE <<Min(S)>> \o Ascending(S \ {Min(S)})

\* the kinds of declaration whose option block holds the marker
MarkedKinds == {"G", "P"}

\* the positions of the service declarations, in the order of the text
ServicePositions(decls) == Ascending({k \in 1..Len(decls) : decls[k] = "S"})

\* the positions of the rpc declarations written inside the service declared
\* at position k that carry the marker, in the order of the text
MarkedMethods(decls, k) ==
  LET end == Min({j \in (k + 1)..Len(decls) : decls[j] = "S"} \cup {Len(decls) + 1})
  IN  Ascending({j \in (k + 1)..(end - 1) : decls[j] \in MarkedKinds})

\* the position of the declaration a one-letter name was given to
PositionOf(name, letters) == CHOOSE k \in DOMAIN letters : <<letters[k]>> = name

\* C1: a method whose option block lacks the marker, and a method with no
\* option block, is absent from the result, and so is a service left with
\* no bound method: every returned service has at least one method.
C1_AnnotationPresenceFilter ==
  Parsed =>
    \A i \in 1..Len(output) :
      /\ Len(output[i].methods) > 0
      /\ \A j \in 1..Len(output[i].methods) :
           /\ Len(output[i].methods[j].name) = 1
           /\ output[i].methods[j].name[1] \in Range(LowerCase)
           /\ LET k == PositionOf(output[i].methods[j].name, LowerCase) IN
                k \in 1..Len(input.decls) /\ input.decls[k] \in MarkedKinds

\* C1 witness: of two services, one is returned with its marked method and
\* without the unmarked method declared in it, and the other, which has no
\* marked method, is not returned
C1_Witness ==
  /\ Parsed
  /\ Len(output) = 1
  /\ Len(output[1].methods) = 1
  /\ Len(ServicePositions(input.decls)) = 2
  /\ LET sp == PositionOf(output[1].serviceName, UpperCase) IN
       \E k \in (sp + 1)..Len(input.decls) :
         /\ input.decls[k] = "N"
         /\ \A h \in (sp + 1)..k : input.decls[h] # "S"

\* the service names and, per method, the name and verb of a result
Shape(services) ==
  [i \in 1..Len(services) |->
     [serviceName |-> services[i].serviceName,
      methods     |-> [j \in 1..Len(services[i].methods) |->
                         [name       |-> services[i].methods[j].name,
                          httpMethod |-> services[i].methods[j].httpMethod]]]]

ExpectedMethods(decls, k) ==
  LET ms == MarkedMethods(decls, k) IN
  [j \in 1..Len(ms) |->
     [name       |-> <<LowerCase[ms[j]]>>,
      httpMethod |-> IF decls[ms[j]] = "G" THEN GET ELSE POST]]

\* the layouts that cut the end of the text off, leaving braces unbalanced
CutLayouts == {"cutOne", "cutTail"}

\* name is one of the one-letter names given to declarations
IsLetter(name, letters) == Len(name) = 1 /\ name[1] \in Range(letters)

\* the position of the declaration of the i-th returned service
ServiceAt(services, i) == PositionOf(services[i].serviceName, UpperCase)

\* the position of the declaration of the j-th method of the i-th returned service
MethodAt(services, i, j) == PositionOf(services[i].methods[j].name, LowerCase)

RECURSIVE ExpectedShape(_, _)
\* the services at the positions ks that have a marked method, in order
ExpectedShape(decls, ks) ==
  IF ks = <<>> THEN <<>>
  ELSE (IF MarkedMethods(decls, Head(ks)) # <<>>
          THEN << [serviceName |-> <<UpperCase[Head(ks)]>>,
                   methods     |-> ExpectedMethods(decls, Head(ks))] >>
          ELSE <<>>)
         \o ExpectedShape(decls, Tail(ks))

\* C4: the returned services are in the order of their declarations in the
\* text, the methods of each in the order of their rpc declarations in the
\* service body, and each method has the verb of its own annotation.
C4_DeclarationOrder ==
  Parsed =>
    /\ input.layout \notin CutLayouts =>
         Shape(output) = ExpectedShape(input.decls, ServicePositions(input.decls))
    /\ \A i \in 1..Len(output) :
         /\ IsLetter(output[i].serviceName, UpperCase)
         /\ input.decls[ServiceAt(output, i)] = "S"
         /\ \A h \in 1..(i - 1) : ServiceAt(output, h) < ServiceAt(output, i)
         /\ \A j \in 1..Len(output[i].methods) :
              /\ IsLetter(output[i].methods[j].name, LowerCase)
              /\ MethodAt(output, i, j) \in
                   Range(MarkedMethods(input.decls, ServiceAt(output, i)))
              /\ \A h \in 1..(j - 1) : MethodAt(output, i, h) < MethodAt(output, i, j)
              /\ output[i].methods[j].httpMethod =
                   IF input.decls[MethodAt(output, i, j)] = "G" THEN GET ELSE POST

\* C4 witness: two services returned, with different verbs
C4_Witness ==
  /\ Parsed
  /\ Len(output) = 2
  /\ output[1].methods[1].httpMethod # output[2].methods[1].httpMethod

\* the name of the first package declaration that starts a line
DeclaredPackage(layout) ==
  IF layout \in {"package", "twoPackages", "packageLast"} THEN PackageName ELSE <<>>

\* C6: fullName is packageName "." serviceName when the package name is not
\* empty and serviceName alone when no package declaration is found, and
\* every service of a text has the name of the text's first package
\* declaration.
C6_FullyQualifiedName ==
  Parsed =>
    \A i \in 1..Len(output) :
      /\ output[i].packageName = DeclaredPackage(input.layout)
      /\ output[i].fullName =
           IF DeclaredPackage(input.layout) # <<>>
             THEN DeclaredPackage(input.layout) \o <<".">> \o output[i].serviceName
             ELSE output[i].serviceName

\* C6 witness: two services of a text with two package declarations
C6_Witness ==
  Parsed /\ input.layout = "twoPackages" /\ Len(output) = 2

\* a result is a list of service records, each with a list of method records
IsServiceList(services) ==
  /\ DOMAIN services = 1..Len(services)
  /\ \A i \in 1..Len(services) :
       /\ DOMAIN services[i] = {"packageName", "serviceName", "fullName", "methods"}
       /\ DOMAIN services[i].methods = 1..Len(services[i].methods)
       /\ \A j \in 1..Len(services[i].methods) :
            /\ DOMAIN services[i].methods[j] =
                 {"name", "inputType", "outputType", "httpMethod", "httpPath", "body"}
            /\ services[i].methods[j].httpMethod \in Range(httpMethods)
            /\ Len(services[i].methods[j].httpPath) > 0

\* C8: for every text, the empty text, a text with no service keyword, a
\* text with unbalanced braces and a text with partial declarations
\* included, parseProtoFile returns a list; the list is empty for the empty
\* text and for a text with no service keyword.
C8_Totality ==
  Parsed =>
    /\ IsServiceList(output)
    /\ ~Includes(input.content, ServiceKeyword) => output = <<>>

\* C8 witness: a list returned for a text that has an rpc with the marker
\* but no service keyword
C8_Witness ==
  /\ Parsed
  /\ ~Includes(input.content, ServiceKeyword)
  /\ Includes(input.content, HttpMarker)
  /\ input.layout = "cutTail"

(***************************************************************************)
(* Properties of parseProtoFiles.                                          *)
(***************************************************************************)
ParsedFiles == pc = "return" /\ input.fn = "parseProtoFiles"

RECURSIVE Concatenated(_)
\* parseProtoFile of the first text, followed by that of the second, ...
Concatenated(files) ==
  IF files = <<>> THEN <<>> ELSE parseProtoFile(Head(files)) \o Concatenated(Tail(files))

\* C7: parseProtoFiles is the in-order concatenation of the results of
\* parseProtoFile, so it distributes over the concatenation of lists of
\* texts, and nothing is merged: two texts declaring the same service
\* give two entries.
C7_Concatenation ==
  ParsedFiles =>
    /\ output = Concatenated(input.files)
    /\ \A k \in 0..Len(input.files) :
         output = parseProtoFiles(SubSeq(input.files, 1, k))
                    \o parseProtoFiles(SubSeq(input.files, k + 1, Len(input.files)))

\* C7 witness: two entries with the same fully-qualified name
C7_Witness ==
  /\ ParsedFiles
  /\ \E i, j \in 1..Len(output) : i < j /\ output[i].fullName = output[j].fullName

====
